---- MODULE Spec2Model ----
(***************************************************************************)
(* A model of debian.py: Builder.main and the stages it sequences.  A run  *)
(* is one call of Builder().main(); every external effect (a spawned       *)
(* command's exit status, the files a tool leaves behind, an OS error) is   *)
(* a nondeterministic choice.  File names and paths are strings and are     *)
(* built, sliced and matched as the code builds, slices and matches them.   *)
(***************************************************************************)
EXTENDS Integers, Sequences, FiniteSets, TLC

VARIABLES
    pc,           \* position of the run inside main and the stages it calls
    options,      \* self.options (the fields the stages read)
    commit,       \* self.dl_fldigi_commit ("" is None)
    location,     \* self.location
    nullOpen,     \* self.null is an open handle
    dirExists,    \* the directory at self.location exists
    wdFiles,      \* names of the entries at the root of the working directory
    tmpFiles,     \* names of the files inside <location>/git-tmp
    changelog,    \* state of <debsrc>/debian/changelog
    outFiles,     \* names of the files copied to options["output"]
    version,      \* self.version
    git,          \* self.git
    origname,     \* self.origname
    debsrc,       \* self.debsrc
    distro,       \* the distribution name add_debian_dir resolved
    delay_error,  \* main's local delay_error
    err,          \* the exception last raised ("none" when none was)
    exitStatus,   \* the process exit status (-1 while the run is going)
    trace,        \* history: the calls and filesystem mutations made so far
    cmds,         \* history: the external commands spawned, with their cwd,
                  \*   exit status and the output cmd_output captured
    globs,        \* history: the glob.glob calls, with the names they matched
    \* one call of cmd_output, with the child it spawns and the pipe
    co_pc,        \* position of the parent inside cmd_output ("idle": no call)
    wOpen,        \* the parent's descriptor of the pipe's write end is open
    child,        \* the spawned command: "none", "running" or "exited"
    childOut,     \* everything the command prints on its standard output
    childRet,     \* the exit status of the command
    pending,      \* the part of childOut the command has not yet written
    pipeBuf,      \* the bytes written to the pipe and not yet read
    data,         \* what read.read() has taken out of the pipe so far
    co_line,      \* the value cmd_output returns
    \* two runs of main on one filesystem
    rpc,          \* position of each run
    rloc,         \* self.location of each run
    dirs,         \* the working-directory paths that exist
    \* a finished run, kept to compare a later run with
    prev

optVars == <<options, commit>>
fsVars  == <<dirExists, wdFiles, tmpFiles, changelog, outFiles>>
srcVars == <<version, git, origname, debsrc, distro>>
builderVars ==
    <<pc, options, commit, location, nullOpen, dirExists, wdFiles,
      tmpFiles, changelog, outFiles, version, git, origname, debsrc,
      distro, delay_error, err, exitStatus, trace, cmds, globs>>
pipeVars == <<co_pc, wOpen, child, childOut, childRet, pending, pipeBuf, data, co_line>>
shareVars == <<rpc, rloc, dirs>>
auxVars == <<pipeVars, shareVars, prev>>
vars == <<builderVars, auxVars>>

---------------------------------------------------------------------------
(* Bounds and input sets *)

\* longest working-directory path explored, in characters
MaxPathLen == 2

\* characters a working-directory path is drawn from: allowed by the
\* character class ("/", "b"), disallowed ("."), and the newline
PathChars == {"/", "b", ".", "\n"}

\* exit statuses of a spawned command
RetCodes == {0, 1}

\* versions `make dist` may stamp into the archive name
Versions == {"3.1", "3.21.4-rc"}

\* what `git log --oneline -1` may print (already stripped by cmd_output)
GitLines == {"abcdef1 Fix the build", "abcdef12 long hash", "abc12 short hash",
             "abcdef1", ""}

---------------------------------------------------------------------------
(* String helpers: Python's str operations *)

CharAt(s, i) == SubSeq(s, i, i)

\* s.startswith(p)
StartsWith(s, p) == Len(s) >= Len(p) /\ SubSeq(s, 1, Len(p)) = p

\* s.endswith(p)
EndsWith(s, p) == Len(s) >= Len(p) /\ SubSeq(s, Len(s) - Len(p) + 1, Len(s)) = p

\* every string over cs of length at most n
RECURSIVE Strings(_, _)
Strings(cs, n) ==
    IF n = 0 THEN {""}
    ELSE LET S == Strings(cs, n - 1) IN S \cup {s \o c : s \in S, c \in cs}

\* one absolute, normalised path: what os.path.realpath returns
IsRealPath(p) ==
    /\ StartsWith(p, "/")
    /\ \A i \in 1..(Len(p) - 1) : ~(CharAt(p, i) = "/" /\ CharAt(p, i + 1) = "/")
    /\ (EndsWith(p, "/") => p = "/")

RealPaths == {p \in Strings(PathChars, MaxPathLen) : IsRealPath(p)}

\* the character class [a-zA-Z0-9_\-/]
ClassChars ==
    {"a","b","c","d","e","f","g","h","i","j","k","l","m","n","o","p","q","r",
     "s","t","u","v","w","x","y","z",
     "A","B","C","D","E","F","G","H","I","J","K","L","M","N","O","P","Q","R",
     "S","T","U","V","W","X","Y","Z",
     "0","1","2","3","4","5","6","7","8","9","_","-","/"}

\* s is one or more characters of the class
AllInClass(s) == Len(s) >= 1 /\ \A i \in 1..Len(s) : CharAt(s, i) \in ClassChars

\* re.match(r"^[a-zA-Z0-9_\-/]+$", s); "$" matches at the end of the string
\* and also just before a newline that ends the string
PathRegexMatch(s) ==
    \/ AllInClass(s)
    \/ EndsWith(s, "\n") /\ AllInClass(SubSeq(s, 1, Len(s) - 1))

\* os.path.join(a, b) for a relative b
Join(a, b) == IF EndsWith(a, "/") \/ a = "" THEN a \o b ELSE a \o "/" \o b

\* self.loc(name)
loc(name) == Join(location, name)

\* fnmatch of name against  pre*suf  (one "*", no other metacharacter)
GlobMatch(name, pre, suf) ==
    /\ Len(name) >= Len(pre) + Len(suf)
    /\ StartsWith(name, pre)
    /\ EndsWith(name, suf)

\* line.split()[0] for a line of words separated by blanks; "" when
\* line.split() is empty (the code then raises IndexError)
RECURSIVE TakeWord(_)
TakeWord(s) ==
    IF s = "" \/ CharAt(s, 1) = " " THEN ""
    ELSE CharAt(s, 1) \o TakeWord(SubSeq(s, 2, Len(s)))

RECURSIVE FirstToken(_)
FirstToken(s) ==
    IF s = "" THEN ""
    ELSE IF CharAt(s, 1) = " " THEN FirstToken(SubSeq(s, 2, Len(s)))
    ELSE TakeWord(s)

\* number of times event e was logged
Count(e) == Cardinality({i \in DOMAIN trace : trace[i] = e})

\* event e was logged
Logged(e) == \E i \in DOMAIN trace : trace[i] = e

---------------------------------------------------------------------------
(* Initial state: a fresh Builder; the directory may be left from a previous
   run, with whatever that run left in it *)

BuilderInit ==
    /\ pc = "get_options"
    /\ options = [get_src |-> FALSE, make_jobs |-> "", distro |-> ""]
    /\ commit = ""
    /\ location = ""
    /\ nullOpen = FALSE
    /\ dirExists \in BOOLEAN
    /\ wdFiles \in (IF dirExists THEN {{}, {"stale_1.0-0000000_amd64.deb"}} ELSE {{}})
    /\ tmpFiles = {}
    /\ changelog = "absent"
    /\ outFiles = {}
    /\ version = ""
    /\ git = ""
    /\ origname = ""
    /\ debsrc = ""
    /\ distro = ""
    /\ delay_error = FALSE
    /\ err = "none"
    /\ exitStatus = -1
    /\ trace = <<>>
    /\ cmds = <<>>
    /\ globs = <<>>

\* no call of cmd_output is being looked at
PipeIdle ==
    /\ co_pc = "idle" /\ wOpen = FALSE /\ child = "none"
    /\ childOut = "" /\ childRet = 0 /\ pending = "" /\ pipeBuf = ""
    /\ data = "" /\ co_line = ""

\* the runs that may share a filesystem
Runs == {1, 2}

\* no second run is being looked at
ShareIdle ==
    /\ rpc = [r \in Runs |-> "idle"]
    /\ rloc = [r \in Runs |-> ""]
    /\ dirs = {}

\* no run has been kept
NoPrev ==
    [valid |-> FALSE, commit |-> "", distFound |-> {}, gitLine |-> "",
     hasDeb |-> FALSE, debFound |-> {}, version |-> "", git |-> "",
     origname |-> "", debsrc |-> "", prefix |-> "", srcFiles |-> <<>>,
     outFiles |-> {}]

\* one run of main, alone on its filesystem
Init == BuilderInit /\ PipeIdle /\ ShareIdle /\ prev = NoPrev

---------------------------------------------------------------------------
(* main, lines 19-35: options and setup *)

\* get_options: parse_args; parser.error exits with status 2 unless one or
\* two positional arguments were given
get_options ==
    /\ pc = "get_options"
    /\ \E nargs \in 0..3, src \in BOOLEAN, jobs \in {"", "4"},
          dn \in {"", "sid"}, rev \in {"", "v3.1"} :
         IF nargs = 1 \/ nargs = 2
         THEN /\ options' = [get_src |-> src, make_jobs |-> jobs, distro |-> dn]
              /\ commit' = (IF nargs = 2 THEN rev ELSE "")
              /\ pc' = "open_null"
              /\ exitStatus' = exitStatus
              /\ trace' = trace
         ELSE /\ src = FALSE /\ jobs = "" /\ dn = "" /\ rev = ""
              /\ UNCHANGED optVars
              /\ pc' = "exited"
              /\ exitStatus' = 2
              /\ trace' = Append(trace, "exit")
    /\ UNCHANGED <<location, nullOpen, fsVars, srcVars, delay_error, err, cmds, globs>>
    /\ UNCHANGED auxVars

\* line 31: self.null = open("/dev/null", "w")
open_null ==
    /\ pc = "open_null"
    /\ trace' = Append(trace, "open_null")
    /\ \E ok \in BOOLEAN :
         IF ok THEN nullOpen' = TRUE /\ pc' = "setup_build_dir" /\ err' = err
         ELSE nullOpen' = nullOpen /\ pc' = "setup_except" /\ err' = "IOError"
    /\ UNCHANGED <<globs, optVars, location, fsVars, srcVars, delay_error, exitStatus, cmds>>
    /\ UNCHANGED auxVars

\* setup_build_dir, lines 93-98: realpath and the character check
setup_build_dir ==
    /\ pc = "setup_build_dir"
    /\ trace' = Append(trace, "setup_build_dir")
    /\ \E p \in RealPaths :
         /\ location' = p
         /\ IF PathRegexMatch(p)
            THEN pc' = "setup_clean" /\ err' = err
            ELSE pc' = "setup_except" /\ err' = "Exception"
    /\ UNCHANGED <<globs, optVars, nullOpen, fsVars, srcVars, delay_error, exitStatus, cmds>>
    /\ UNCHANGED auxVars

\* clean_build_dir, lines 103-111, called at `here`: os.stat, and
\* shutil.rmtree when the directory is there.  stat fails with ENOENT exactly
\* when the directory is absent (swallowed), or with another OSError
\* (re-raised); rmtree removes the whole tree or raises part-way.
clean_build_dir(here, next, handler) ==
    /\ pc = here
    /\ \E statOk \in BOOLEAN, rmOk \in BOOLEAN, partial \in BOOLEAN :
         IF ~statOk
         THEN /\ rmOk /\ partial
              /\ trace' = Append(trace, "clean_build_dir")
              /\ pc' = handler /\ err' = "OSError"
              /\ UNCHANGED fsVars
         ELSE IF ~dirExists
         THEN /\ rmOk /\ partial
              /\ trace' = Append(trace, "clean_build_dir")
              /\ pc' = next /\ err' = err
              /\ UNCHANGED fsVars
         ELSE IF rmOk
         THEN /\ partial
              /\ trace' = trace \o <<"clean_build_dir", "rmtree">>
              /\ pc' = next /\ err' = err
              /\ dirExists' = FALSE
              /\ wdFiles' = {} /\ tmpFiles' = {} /\ changelog' = "absent"
              /\ outFiles' = outFiles
         ELSE /\ trace' = trace \o <<"clean_build_dir", "rmtree">>
              /\ pc' = handler /\ err' = "OSError"
              /\ dirExists' = dirExists
              /\ IF partial
                 THEN wdFiles' = {} /\ tmpFiles' = {} /\ changelog' = "absent"
                 ELSE UNCHANGED <<wdFiles, tmpFiles, changelog>>
              /\ outFiles' = outFiles

\* setup_build_dir, line 100: self.clean_build_dir()
setup_clean ==
    /\ clean_build_dir("setup_clean", "setup_mkdir", "setup_except")
    /\ UNCHANGED <<globs, optVars, location, nullOpen, srcVars, delay_error, exitStatus, cmds>>
    /\ UNCHANGED auxVars

\* setup_build_dir, line 101: os.mkdir(self.location)
setup_mkdir ==
    /\ pc = "setup_mkdir"
    /\ trace' = Append(trace, "mkdir")
    /\ \E ok \in BOOLEAN :
         IF ok
         THEN /\ dirExists' = TRUE /\ wdFiles' = {}
              /\ pc' = "get_orig_tar" /\ err' = err
         ELSE /\ UNCHANGED <<dirExists, wdFiles>>
              /\ pc' = "setup_except" /\ err' = "OSError"
    /\ UNCHANGED <<globs, optVars, location, nullOpen, tmpFiles, changelog, outFiles,
                   srcVars, delay_error, exitStatus, cmds>>
    /\ UNCHANGED auxVars

\* variant: the handler logs and falls through to the build phase
setup_except_fallthrough ==
    /\ pc = "setup_except"
    /\ trace' = Append(trace, "except_setup")
    /\ pc' = "get_orig_tar"
    /\ UNCHANGED <<globs, optVars, location, nullOpen, fsVars, srcVars, delay_error,
                   err, exitStatus, cmds>>
    /\ UNCHANGED auxVars

\* main, lines 33-35: logger.exception("Error in setup"); sys.exit(1)
setup_except ==
    /\ pc = "setup_except"
    /\ trace' = trace \o <<"except_setup", "exit">>
    /\ pc' = "exited"
    /\ exitStatus' = 1
    /\ UNCHANGED <<globs, optVars, location, nullOpen, fsVars, srcVars, delay_error, err, cmds>>
    /\ UNCHANGED auxVars

---------------------------------------------------------------------------
(* cmd and the build phase, main lines 39-46 *)

\* one spawned command, as the history records it
Spawned(argv, cwd, ret, out) == [argv |-> argv, cwd |-> cwd, ret |-> ret, out |-> out]

\* variant: the exit status is not looked at
cmd_unchecked(here, argv, cwd, next) ==
    /\ pc = here
    /\ \E ret \in RetCodes :
         /\ cmds' = Append(cmds, Spawned(argv, cwd, ret, ""))
         /\ pc' = next /\ err' = err

\* cmd, lines 113-128, called at `here` inside the build phase: spawn argv
\* with working directory cwd, wait, raise Exception on a nonzero status
cmd(here, argv, cwd, next) ==
    /\ pc = here
    /\ \E ret \in RetCodes :
         /\ cmds' = Append(cmds, Spawned(argv, cwd, ret, ""))
         /\ IF ret = 0 THEN pc' = next /\ err' = err
            ELSE pc' = "build_except" /\ err' = "Exception"

\* variant: build is called before add_debian_dir
NextStageSwapped(stage) ==
    CASE stage = "get_orig_tar" -> "build"
      [] stage = "build" -> "add_debian_dir"
      [] stage = "add_debian_dir" -> "get_files"
      [] stage = "get_files" -> "cleanup"

\* main, lines 40-43: the stage called after `stage` returns
NextStage(stage) ==
    CASE stage = "get_orig_tar" -> "add_debian_dir"
      [] stage = "add_debian_dir" -> "build"
      [] stage = "build" -> "get_files"
      [] stage = "get_files" -> "cleanup"

\* g = self.loc("git-tmp")
g == loc("git-tmp")

\* get_orig_tar, line 152: git clone <source> g, with cwd=None (the cwd of
\* the process).  The clone creates git-tmp; a failed clone may leave it.
git_clone ==
    /\ cmd("get_orig_tar", <<"git", "clone", "SOURCE", g>>, "None",
           IF commit # "" THEN "git_checkout" ELSE "submodule_init")
    /\ trace' = Append(trace, "get_orig_tar")
    /\ \E made \in BOOLEAN :
         /\ (pc' # "build_except" => made)
         /\ wdFiles' = (IF made THEN wdFiles \cup {"git-tmp"} ELSE wdFiles)
    /\ UNCHANGED <<globs, optVars, location, nullOpen, dirExists, tmpFiles, changelog,
                   outFiles, srcVars, delay_error, exitStatus>>
    /\ UNCHANGED auxVars

\* line 154: git checkout <commit>, only when a commit was given
git_checkout ==
    /\ cmd("git_checkout", <<"git", "checkout", commit>>, g, "submodule_init")
    /\ UNCHANGED <<globs, optVars, location, nullOpen, fsVars, srcVars, delay_error,
                   exitStatus, trace>>
    /\ UNCHANGED auxVars

\* line 155
submodule_init ==
    /\ cmd("submodule_init", <<"git", "submodule", "init">>, g, "submodule_update")
    /\ UNCHANGED <<globs, optVars, location, nullOpen, fsVars, srcVars, delay_error,
                   exitStatus, trace>>
    /\ UNCHANGED auxVars

\* line 156
submodule_update ==
    /\ cmd("submodule_update", <<"git", "submodule", "update">>, g, "autoreconf")
    /\ UNCHANGED <<globs, optVars, location, nullOpen, fsVars, srcVars, delay_error,
                   exitStatus, trace>>
    /\ UNCHANGED auxVars

\* line 158
autoreconf ==
    /\ cmd("autoreconf", <<"autoreconf", "-vfi">>, g, "configure")
    /\ UNCHANGED <<globs, optVars, location, nullOpen, fsVars, srcVars, delay_error,
                   exitStatus, trace>>
    /\ UNCHANGED auxVars

\* line 159
configure ==
    /\ cmd("configure", <<"./configure">>, g, "make_dist")
    /\ UNCHANGED <<globs, optVars, location, nullOpen, fsVars, srcVars, delay_error,
                   exitStatus, trace>>
    /\ UNCHANGED auxVars

\* the file names `make dist` may leave in git-tmp: archives of the project
\* and files the dist pattern does not match
DistCandidates ==
    {"dl-fldigi-" \o v \o ".tar.gz" : v \in Versions}
        \cup {"dl-fldigi-3.1.tar.bz2", "fldigi-3.1.tar.gz"}

\* line 160: make dist; whatever its status, it leaves some files behind
make_dist ==
    /\ cmd("make_dist", <<"make", "dist">>, g, "glob_dist")
    /\ \E made \in SUBSET DistCandidates : tmpFiles' = made
    /\ UNCHANGED <<globs, optVars, location, nullOpen, dirExists, wdFiles, changelog,
                   outFiles, srcVars, delay_error, exitStatus, trace>>
    /\ UNCHANGED auxVars

\* line 162: glob.glob(self.loc("git-tmp", "dl-fldigi-*.tar.gz")), by basename
DistSearch == {n \in tmpFiles : GlobMatch(n, "dl-fldigi-", ".tar.gz")}

\* line 167: distname[len("dl-fldigi-"):-len(".tar.gz")]
VersionOf(distname) ==
    SubSeq(distname, Len("dl-fldigi-") + 1, Len(distname) - Len(".tar.gz"))

\* variant: the assertion only demands a match (len(search) >= 1)
AtLeastOne(search) == Cardinality(search) >= 1

\* lines 163 and 236: assert len(search) == 1
ExactlyOne(search) == Cardinality(search) = 1

\* lines 162-168: exactly one archive, and the version cut out of its name
glob_dist ==
    /\ pc = "glob_dist"
    /\ globs' = Append(globs, [pattern |-> loc(Join("git-tmp", "dl-fldigi-*.tar.gz")),
                               found |-> DistSearch])
    /\ IF ~ExactlyOne(DistSearch)
       THEN /\ pc' = "build_except" /\ err' = "AssertionError"
            /\ version' = version
       ELSE LET distname == CHOOSE n \in DistSearch : TRUE IN
            IF ~(StartsWith(distname, "dl-fldigi-") /\ EndsWith(distname, ".tar.gz"))
            THEN /\ pc' = "build_except" /\ err' = "AssertionError"
                 /\ version' = version
            ELSE /\ version' = VersionOf(distname)
                 /\ pc' = "git_log" /\ err' = err
    /\ UNCHANGED <<optVars, location, nullOpen, fsVars, git, origname, debsrc,
                   distro, delay_error, exitStatus, trace, cmds>>
    /\ UNCHANGED auxVars

\* lines 170-175: cmd_output("git", "log", "--oneline", "-1"), the first
\* word of the line, and the check of its length
\* variant: the assertion accepts any hash of seven characters or more
GitOkAtLeast(h) == Len(h) >= 7

\* line 173: assert len(self.git) == 7
GitOk(h) == Len(h) = 7

git_log ==
    /\ pc = "git_log"
    /\ \E ret \in RetCodes, line \in GitLines :
         /\ cmds' = Append(cmds, Spawned(<<"git", "log", "--oneline", "-1">>, g, ret,
                                         IF ret = 0 THEN line ELSE ""))
         /\ IF ret # 0
            THEN /\ line = ""
                 /\ pc' = "build_except" /\ err' = "Exception" /\ git' = git
            ELSE IF FirstToken(line) = ""
            THEN /\ pc' = "build_except" /\ err' = "IndexError" /\ git' = git
            ELSE /\ git' = FirstToken(line)
                 /\ IF GitOk(git')
                    THEN pc' = "copy_orig" /\ err' = err
                    ELSE pc' = "build_except" /\ err' = "AssertionError"
    /\ UNCHANGED <<globs, optVars, location, nullOpen, fsVars, version, origname, debsrc,
                   distro, delay_error, exitStatus, trace>>
    /\ UNCHANGED auxVars

\* line 177: "dl-fldigi_" + self.version + ".orig.tar.gz"
OrigName(v) == "dl-fldigi_" \o v \o ".orig.tar.gz"

\* lines 177-181: the canonical name, and the copy to the working directory
copy_orig ==
    /\ pc = "copy_orig"
    /\ origname' = OrigName(version)
    /\ \E ok \in BOOLEAN :
         IF ok
         THEN wdFiles' = wdFiles \cup {origname'} /\ pc' = "rm_git_tmp" /\ err' = err
         ELSE wdFiles' = wdFiles /\ pc' = "build_except" /\ err' = "IOError"
    /\ UNCHANGED <<globs, optVars, location, nullOpen, dirExists, tmpFiles, changelog,
                   outFiles, version, git, debsrc, distro, delay_error,
                   exitStatus, trace, cmds>>
    /\ UNCHANGED auxVars

\* variant: the clone is left where it is
rm_git_tmp_kept ==
    /\ pc = "rm_git_tmp"
    /\ pc' = NextStage("get_orig_tar")
    /\ UNCHANGED <<globs, optVars, location, nullOpen, fsVars, srcVars, delay_error,
                   err, exitStatus, trace, cmds>>
    /\ UNCHANGED auxVars

\* line 182: shutil.rmtree(self.loc("git-tmp"))
rm_git_tmp ==
    /\ pc = "rm_git_tmp"
    /\ \E ok \in BOOLEAN :
         IF ok
         THEN /\ wdFiles' = wdFiles \ {"git-tmp"} /\ tmpFiles' = {}
              /\ pc' = NextStage("get_orig_tar") /\ err' = err
         ELSE /\ UNCHANGED <<wdFiles, tmpFiles>>
              /\ pc' = "build_except" /\ err' = "OSError"
    /\ UNCHANGED <<globs, optVars, location, nullOpen, dirExists, changelog, outFiles,
                   srcVars, delay_error, exitStatus, trace, cmds>>
    /\ UNCHANGED auxVars

---------------------------------------------------------------------------
(* add_debian_dir, lines 184-210 *)

\* line 185: "dl-fldigi-" + self.version + "-" + self.git
DebSrc(v, h) == "dl-fldigi-" \o v \o "-" \o h

\* lines 185-188: the versioned source directory
add_debian_dir ==
    /\ pc = "add_debian_dir"
    /\ trace' = Append(trace, "add_debian_dir")
    /\ debsrc' = DebSrc(version, git)
    /\ \E ok \in BOOLEAN :
         IF ok
         THEN wdFiles' = wdFiles \cup {debsrc'} /\ pc' = "tar" /\ err' = err
         ELSE wdFiles' = wdFiles /\ pc' = "build_except" /\ err' = "OSError"
    /\ UNCHANGED <<globs, optVars, location, nullOpen, dirExists, tmpFiles, changelog,
                   outFiles, version, git, origname, distro, delay_error,
                   exitStatus, cmds>>
    /\ UNCHANGED auxVars

\* lines 189-190: tar xfC <orig> <debsrc> --strip-components=1
tar ==
    /\ cmd("tar", <<"tar", "xfC", loc(origname), loc(debsrc), "--strip-components=1">>,
           location, "copytree")
    /\ UNCHANGED <<globs, optVars, location, nullOpen, fsVars, srcVars, delay_error,
                   exitStatus, trace>>
    /\ UNCHANGED auxVars

\* lines 192-194: shutil.copytree of the bundled debian directory
copytree ==
    /\ pc = "copytree"
    /\ \E ok \in BOOLEAN :
         IF ok
         THEN /\ changelog' = "template" /\ pc' = "read_changelog" /\ err' = err
              /\ trace' = Append(trace, "copytree")
         ELSE /\ changelog' = changelog /\ pc' = "build_except" /\ err' = "OSError"
              /\ trace' = trace
    /\ UNCHANGED <<globs, optVars, location, nullOpen, dirExists, wdFiles, tmpFiles,
                   outFiles, srcVars, delay_error, exitStatus, cmds>>
    /\ UNCHANGED auxVars

\* lines 196-199: read the changelog template
read_changelog ==
    /\ pc = "read_changelog"
    /\ \E ok \in BOOLEAN :
         IF ok THEN pc' = "resolve_distro" /\ err' = err
         ELSE pc' = "build_except" /\ err' = "IOError"
    /\ UNCHANGED <<globs, optVars, location, nullOpen, fsVars, srcVars, delay_error,
                   exitStatus, trace, cmds>>
    /\ UNCHANGED auxVars

\* what `lsb_release -si` and `lsb_release -sc` may print
Distributors == {"Debian", "Ubuntu"}
Codenames == {"jammy"}

\* variant: the codename is used whatever the distributor
DefaultDistroCodename(distributor, codename) == codename

\* default_distro, lines 87-90, given what the two queries print
DefaultDistro(distributor, codename) ==
    IF distributor = "Debian" THEN "unstable" ELSE codename

\* lines 201-203 with default_distro, lines 85-90: the explicit option, or
\* "unstable" on Debian, or the host's codename
resolve_distro ==
    /\ pc = "resolve_distro"
    /\ IF options.distro # ""
       THEN distro' = options.distro /\ cmds' = cmds
            /\ pc' = "write_changelog" /\ err' = err
       ELSE \E r1 \in RetCodes, r2 \in RetCodes, d \in Distributors, c \in Codenames :
              LET si == Spawned(<<"lsb_release", "-si">>, location, r1,
                                IF r1 = 0 THEN d ELSE "")
                  sc == Spawned(<<"lsb_release", "-sc">>, location, r2,
                                IF r2 = 0 THEN c ELSE "")
              IN  IF r1 # 0
                  THEN /\ r2 = 0 /\ d = "Debian"
                       /\ cmds' = Append(cmds, si) /\ distro' = distro
                       /\ pc' = "build_except" /\ err' = "Exception"
                  ELSE IF d = "Debian"
                  THEN /\ r2 = 0
                       /\ cmds' = Append(cmds, si) /\ distro' = DefaultDistro(d, c)
                       /\ pc' = "write_changelog" /\ err' = err
                  ELSE IF r2 # 0
                  THEN /\ cmds' = cmds \o <<si, sc>> /\ distro' = distro
                       /\ pc' = "build_except" /\ err' = "Exception"
                  ELSE /\ cmds' = cmds \o <<si, sc>> /\ distro' = DefaultDistro(d, c)
                       /\ pc' = "write_changelog" /\ err' = err
    /\ UNCHANGED <<globs, optVars, location, nullOpen, fsVars, version, git, origname,
                   debsrc, delay_error, exitStatus, trace>>
    /\ UNCHANGED auxVars

\* variant: add_debian_dir returns without formatting or writing
write_changelog_skipped ==
    /\ pc = "write_changelog"
    /\ pc' = NextStage("add_debian_dir")
    /\ UNCHANGED <<globs, optVars, location, nullOpen, fsVars, srcVars, delay_error,
                   err, exitStatus, trace, cmds>>
    /\ UNCHANGED auxVars

\* lines 205-210: changelog.format(...) and the overwrite.  format raises on
\* a placeholder it is not given; open(.., "w") truncates before the write.
write_changelog ==
    /\ pc = "write_changelog"
    /\ \E out \in {"written", "format_error", "open_error", "write_error"} :
         CASE out = "written" ->
                /\ changelog' = "written" /\ pc' = NextStage("add_debian_dir") /\ err' = err
                /\ trace' = trace \o <<"substitute", "overwrite">>
           [] out = "format_error" ->
                /\ changelog' = changelog /\ pc' = "build_except" /\ err' = "KeyError"
                /\ trace' = trace
           [] out = "open_error" ->
                /\ changelog' = changelog /\ pc' = "build_except" /\ err' = "IOError"
                /\ trace' = Append(trace, "substitute")
           [] out = "write_error" ->
                /\ changelog' = "truncated" /\ pc' = "build_except" /\ err' = "IOError"
                /\ trace' = trace \o <<"substitute", "overwrite">>
    /\ UNCHANGED <<globs, optVars, location, nullOpen, dirExists, wdFiles, tmpFiles,
                   outFiles, srcVars, delay_error, exitStatus, cmds>>
    /\ UNCHANGED auxVars

---------------------------------------------------------------------------
(* build, lines 212-220, and get_files, lines 222-240 *)

\* variant: -S is passed whether or not source-only mode was requested
BuildArgsAlwaysSource ==
    (IF options.make_jobs # "" THEN <<"-j" \o options.make_jobs>> ELSE <<>>) \o <<"-S">>

\* lines 213-218: the optional arguments
BuildArgs ==
    (IF options.make_jobs # "" THEN <<"-j" \o options.make_jobs>> ELSE <<>>)
        \o (IF options.get_src THEN <<"-S">> ELSE <<>>)

\* variant: the distribution name is appended to the prefix
PrefixWithDistro(v, h) == "dl-fldigi_" \o v \o "-" \o h \o "~" \o options.distro

\* line 223: "dl-fldigi_" + self.version + "-" + self.git
Prefix(v, h) == "dl-fldigi_" \o v \o "-" \o h

\* lines 226-227: the three source-package names, in the order of the list
SrcFiles(v, h) ==
    <<Prefix(v, h) \o ".orig.tar.gz", Prefix(v, h) \o ".debian.tar.gz",
      Prefix(v, h) \o ".dsc">>

\* the file names a successful debuild may leave in the working directory
BuildCandidates ==
    IF options.get_src
    THEN {SrcFiles(version, git)[i] : i \in 1..3}
    ELSE {Prefix(version, git) \o "_amd64.deb", Prefix(version, git) \o "_i386.deb",
          Prefix(version, git) \o "_amd64.changes",
          "dl-fldigi-dbg_" \o version \o "-" \o git \o "_amd64.deb"}

\* variant: debuild's exit status is not looked at
build_unchecked ==
    /\ pc = "build"
    /\ \E ret \in RetCodes, made \in SUBSET BuildCandidates :
         /\ cmds' = Append(cmds, Spawned(<<"debuild", "-uc", "-us">> \o BuildArgs,
                                         loc(debsrc), ret, ""))
         /\ wdFiles' = wdFiles \cup made
    /\ pc' = NextStage("build")
    /\ trace' = Append(trace, "build")
    /\ UNCHANGED <<globs, optVars, location, nullOpen, dirExists, tmpFiles, changelog,
                   outFiles, srcVars, delay_error, err, exitStatus>>
    /\ UNCHANGED auxVars

\* line 220: debuild -uc -us [-jN] [-S] in the versioned source directory
build ==
    /\ cmd("build", <<"debuild", "-uc", "-us">> \o BuildArgs, loc(debsrc),
           NextStage("build"))
    /\ trace' = Append(trace, "build")
    /\ \E made \in SUBSET BuildCandidates :
         /\ (pc' = "build_except" => made = {})
         /\ wdFiles' = wdFiles \cup made
    /\ UNCHANGED <<globs, optVars, location, nullOpen, dirExists, tmpFiles, changelog,
                   outFiles, srcVars, delay_error, exitStatus>>
    /\ UNCHANGED auxVars

\* line 234: prefix + "_*.deb"
DebPattern == Prefix(version, git) \o "_*.deb"

\* line 235: glob.glob(self.loc(name)), by basename
DebSearch == {n \in wdFiles : GlobMatch(n, Prefix(version, git) \o "_", ".deb")}

\* line 228: assert files[0] == self.origname
OrigCheck == SrcFiles(version, git)[1] = origname

\* get_files: in source mode the check of the orig name and the copy of the
\* three files, in order, up to the first that cannot be copied; in binary
\* mode the glob, the exactly-one check and the copy of the match
get_files ==
    /\ pc = "get_files"
    /\ trace' = Append(trace, "get_files")
    /\ IF options.get_src
       THEN IF ~OrigCheck
            THEN pc' = "build_except" /\ err' = "AssertionError" /\ outFiles' = outFiles
            ELSE \E k \in 0..3 :
                   /\ \A i \in 1..k : SrcFiles(version, git)[i] \in wdFiles
                   /\ outFiles' = outFiles \cup {SrcFiles(version, git)[i] : i \in 1..k}
                   /\ IF k = 3 THEN pc' = NextStage("get_files") /\ err' = err
                      ELSE pc' = "build_except" /\ err' = "IOError"
       ELSE IF ~ExactlyOne(DebSearch)
            THEN pc' = "build_except" /\ err' = "AssertionError" /\ outFiles' = outFiles
            ELSE \E ok \in BOOLEAN, deb \in DebSearch :
                   IF ok
                   THEN /\ outFiles' = outFiles \cup {deb}
                        /\ pc' = NextStage("get_files") /\ err' = err
                   ELSE /\ outFiles' = outFiles
                        /\ pc' = "build_except" /\ err' = "IOError"
    /\ globs' = (IF options.get_src THEN globs
                 ELSE Append(globs, [pattern |-> loc(DebPattern), found |-> DebSearch]))
    /\ UNCHANGED <<optVars, location, nullOpen, dirExists, wdFiles, tmpFiles,
                   changelog, srcVars, delay_error, exitStatus, cmds>>
    /\ UNCHANGED auxVars

---------------------------------------------------------------------------
(* main, lines 44-55: the deferred error, the cleanup phase and the exit *)

\* variant: the handler exits at once, as the setup handler does
build_except_exit ==
    /\ pc = "build_except"
    /\ delay_error' = TRUE
    /\ trace' = trace \o <<"except_build", "exit">>
    /\ pc' = "exited"
    /\ exitStatus' = 1
    /\ UNCHANGED <<globs, optVars, location, nullOpen, fsVars, srcVars, err, cmds>>
    /\ UNCHANGED auxVars

\* lines 44-46: delay_error = True; logger.exception("Error in build")
build_except ==
    /\ pc = "build_except"
    /\ delay_error' = TRUE
    /\ trace' = Append(trace, "except_build")
    /\ pc' = "cleanup"
    /\ exitStatus' = exitStatus
    /\ UNCHANGED <<globs, optVars, location, nullOpen, fsVars, srcVars, err, cmds>>
    /\ UNCHANGED auxVars

\* lines 48-49: the cleanup try block is entered; self.null.close()
cleanup ==
    /\ pc = "cleanup"
    /\ trace' = Append(trace, "cleanup")
    /\ nullOpen' = FALSE
    /\ \E ok \in BOOLEAN :
         IF ok THEN pc' = "cleanup_clean" /\ err' = err
         ELSE pc' = "cleanup_except" /\ err' = "IOError"
    /\ UNCHANGED <<globs, optVars, location, fsVars, srcVars, delay_error, exitStatus, cmds>>
    /\ UNCHANGED auxVars

\* variant: the directory is left in place
cleanup_keep ==
    /\ pc = "cleanup_clean"
    /\ trace' = Append(trace, "clean_build_dir")
    /\ pc' = "finish"
    /\ UNCHANGED <<globs, optVars, location, nullOpen, fsVars, srcVars, delay_error,
                   err, exitStatus, cmds>>
    /\ UNCHANGED auxVars

\* line 50: self.clean_build_dir()
cleanup_clean ==
    /\ clean_build_dir("cleanup_clean", "finish", "cleanup_except")
    /\ UNCHANGED <<globs, optVars, location, nullOpen, srcVars, delay_error, exitStatus, cmds>>
    /\ UNCHANGED auxVars

\* variant: the cleanup handler resets the deferred error
cleanup_except_clears ==
    /\ pc = "cleanup_except"
    /\ trace' = Append(trace, "except_cleanup")
    /\ pc' = "finish"
    /\ delay_error' = FALSE
    /\ UNCHANGED <<globs, optVars, location, nullOpen, fsVars, srcVars, err,
                   exitStatus, cmds>>
    /\ UNCHANGED auxVars

\* lines 51-52: logger.exception("Error whilst cleaning up")
cleanup_except ==
    /\ pc = "cleanup_except"
    /\ trace' = Append(trace, "except_cleanup")
    /\ pc' = "finish"
    /\ UNCHANGED <<globs, optVars, location, nullOpen, fsVars, srcVars, delay_error, err,
                   exitStatus, cmds>>
    /\ UNCHANGED auxVars

\* lines 54-55: sys.exit(1) when an error was deferred, else main returns
ExitCode == IF delay_error THEN 1 ELSE 0

finish ==
    /\ pc = "finish"
    /\ exitStatus' = ExitCode
    /\ trace' = Append(trace, "exit")
    /\ pc' = "exited"
    /\ UNCHANGED <<globs, optVars, location, nullOpen, fsVars, srcVars, delay_error, err, cmds>>
    /\ UNCHANGED auxVars

---------------------------------------------------------------------------

Next ==
    \/ get_options \/ open_null \/ setup_build_dir \/ setup_clean \/ setup_mkdir
    \/ setup_except
    \/ git_clone \/ git_checkout \/ submodule_init \/ submodule_update
    \/ autoreconf \/ configure \/ make_dist \/ glob_dist \/ git_log
    \/ copy_orig \/ rm_git_tmp
    \/ add_debian_dir \/ tar \/ copytree \/ read_changelog \/ resolve_distro
    \/ write_changelog
    \/ build \/ get_files \/ build_except
    \/ cleanup \/ cleanup_clean \/ cleanup_except \/ finish

Spec == Init /\ [][Next]_vars

\* every statement of main returns: open, stat, rmtree and the copies return
\* or raise, and every spawned command exits, so the run always takes its
\* next step
FairSpec == Spec /\ WF_vars(Next)

---------------------------------------------------------------------------
(* cmd_output, lines 133-147, taken on its own: the parent, the command it
   spawns and the pipe between them.  The pipe holds at most PipeCap bytes;
   a write to a full pipe blocks, and a read of an empty pipe blocks until
   every descriptor of the write end is closed. *)

\* capacity of the pipe, in characters
PipeCap == 3

\* characters the command prints
OutChars == {"a", " ", "\n"}

\* what the command may print: up to one character more than the pipe holds
ChildOutputs == Strings(OutChars, PipeCap + 1)

\* the characters str.strip() removes
Whitespace == {" ", "\n", "\t", "\r"}

RECURSIVE LStrip(_)
LStrip(s) ==
    IF s # "" /\ CharAt(s, 1) \in Whitespace THEN LStrip(SubSeq(s, 2, Len(s))) ELSE s

RECURSIVE RStrip(_)
RStrip(s) ==
    IF s # "" /\ CharAt(s, Len(s)) \in Whitespace
    THEN RStrip(SubSeq(s, 1, Len(s) - 1)) ELSE s

\* s.strip()
Strip(s) == RStrip(LStrip(s))

PipeInit ==
    /\ BuilderInit /\ ~dirExists /\ ShareIdle /\ prev = NoPrev
    /\ co_pc = "pipe" /\ wOpen = FALSE /\ child = "none"
    /\ childOut = "" /\ childRet = 0 /\ pending = "" /\ pipeBuf = ""
    /\ data = "" /\ co_line = ""

\* lines 136-137: (r, w) = os.pipe(); read = os.fdopen(r)
co_pipe ==
    /\ co_pc = "pipe"
    /\ wOpen' = TRUE /\ pipeBuf' = ""
    /\ co_pc' = "call"
    /\ UNCHANGED <<child, childOut, childRet, pending, data, co_line>>
    /\ UNCHANGED <<builderVars, shareVars, prev>>

\* lines 139-141 and 125: subprocess.call starts the command with w as its
\* standard output, then waits for it
co_call ==
    /\ co_pc = "call"
    /\ \E out \in ChildOutputs, ret \in RetCodes :
         /\ childOut' = out /\ childRet' = ret /\ pending' = out
    /\ child' = "running"
    /\ co_pc' = "wait"
    /\ UNCHANGED <<wOpen, pipeBuf, data, co_line>>
    /\ UNCHANGED <<builderVars, shareVars, prev>>

\* the command writes its next character, when the pipe has room for it
child_write ==
    /\ child = "running" /\ pending # ""
    /\ Len(pipeBuf) < PipeCap
    /\ pipeBuf' = pipeBuf \o CharAt(pending, 1)
    /\ pending' = SubSeq(pending, 2, Len(pending))
    /\ UNCHANGED <<co_pc, wOpen, child, childOut, childRet, data, co_line>>
    /\ UNCHANGED <<builderVars, shareVars, prev>>

\* the command has written everything and exits; its descriptors are closed
child_exit ==
    /\ child = "running" /\ pending = ""
    /\ child' = "exited"
    /\ UNCHANGED <<co_pc, wOpen, childOut, childRet, pending, pipeBuf, data, co_line>>
    /\ UNCHANGED <<builderVars, shareVars, prev>>

\* lines 125-128: subprocess.call returns once the command has exited; cmd
\* raises on a nonzero status
co_wait ==
    /\ co_pc = "wait" /\ child = "exited"
    /\ co_pc' = (IF childRet = 0 THEN "close_w" ELSE "raised")
    /\ UNCHANGED <<wOpen, child, childOut, childRet, pending, pipeBuf, data, co_line>>
    /\ UNCHANGED <<builderVars, shareVars, prev>>

\* variant: the parent keeps its descriptor of the write end
co_close_w_skipped ==
    /\ co_pc = "close_w"
    /\ co_pc' = "read"
    /\ UNCHANGED <<wOpen, child, childOut, childRet, pending, pipeBuf, data, co_line>>
    /\ UNCHANGED <<builderVars, shareVars, prev>>

\* line 142: os.close(w)
co_close_w ==
    /\ co_pc = "close_w"
    /\ wOpen' = FALSE
    /\ co_pc' = "read"
    /\ UNCHANGED <<child, childOut, childRet, pending, pipeBuf, data, co_line>>
    /\ UNCHANGED <<builderVars, shareVars, prev>>

\* line 144, read.read(): take what the pipe holds
co_read ==
    /\ co_pc = "read" /\ pipeBuf # ""
    /\ data' = data \o pipeBuf
    /\ pipeBuf' = ""
    /\ UNCHANGED <<co_pc, wOpen, child, childOut, childRet, pending, co_line>>
    /\ UNCHANGED <<builderVars, shareVars, prev>>

\* lines 144-147: end of file, reached when the pipe is empty and no
\* descriptor of its write end is open; .strip(), read.close(), return line
co_return ==
    /\ co_pc = "read" /\ pipeBuf = ""
    /\ ~wOpen /\ child # "running"
    /\ co_line' = Strip(data)
    /\ co_pc' = "returned"
    /\ UNCHANGED <<wOpen, child, childOut, childRet, pending, pipeBuf, data>>
    /\ UNCHANGED <<builderVars, shareVars, prev>>

PipeNext ==
    \/ co_pipe \/ co_call \/ child_write \/ child_exit
    \/ co_wait \/ co_close_w \/ co_read \/ co_return

\* a process that can take a step is scheduled
PipeSpec == PipeInit /\ [][PipeNext]_vars /\ WF_vars(PipeNext)

---------------------------------------------------------------------------
(* Two runs of main on one filesystem: setup_build_dir, the stages of the
   build phase and the cleanup phase of each run, interleaved.  Each run
   names its working directory by path only; nothing records whose it is. *)

\* the working-directory paths the two runs are given
SharePaths == {"/a", "/b"}

ShareInit ==
    /\ BuilderInit /\ ~dirExists /\ PipeIdle /\ prev = NoPrev
    /\ rpc = [r \in Runs |-> "setup_clean"]
    /\ rloc \in [Runs -> SharePaths]
    /\ dirs \in SUBSET SharePaths

\* variant: the removal takes the sibling directories as well
RemoveTreeAll(ds, p) == {}

\* lines 104-111: os.stat, and shutil.rmtree(self.location) when it is there
RemoveTree(ds, p) == ds \ {p}

\* setup_build_dir, line 100: self.clean_build_dir()
share_setup_clean(r) ==
    /\ rpc[r] = "setup_clean"
    /\ dirs' = RemoveTree(dirs, rloc[r])
    /\ rpc' = [rpc EXCEPT ![r] = "setup_mkdir"]
    /\ UNCHANGED <<rloc, builderVars, pipeVars, prev>>

\* setup_build_dir, line 101: os.mkdir(self.location) raises when the path
\* exists, and main's setup handler exits
share_setup_mkdir(r) ==
    /\ rpc[r] = "setup_mkdir"
    /\ IF rloc[r] \in dirs
       THEN dirs' = dirs /\ rpc' = [rpc EXCEPT ![r] = "exited"]
       ELSE dirs' = dirs \cup {rloc[r]} /\ rpc' = [rpc EXCEPT ![r] = "get_orig_tar"]
    /\ UNCHANGED <<rloc, builderVars, pipeVars, prev>>

\* main, lines 39-46: one stage of the build phase.  Every stage works
\* inside self.location and raises when the directory is not there; a stage
\* that raises takes the run to the cleanup phase
share_stage(r) ==
    /\ rpc[r] \in {"get_orig_tar", "add_debian_dir", "build", "get_files"}
    /\ \E ok \in BOOLEAN :
         rpc' = [rpc EXCEPT ![r] = IF ok /\ rloc[r] \in dirs
                                   THEN NextStage(rpc[r]) ELSE "cleanup"]
    /\ UNCHANGED <<dirs, rloc, builderVars, pipeVars, prev>>

\* main, lines 48-55: self.clean_build_dir() and the exit
share_cleanup(r) ==
    /\ rpc[r] = "cleanup"
    /\ dirs' = RemoveTree(dirs, rloc[r])
    /\ rpc' = [rpc EXCEPT ![r] = "exited"]
    /\ UNCHANGED <<rloc, builderVars, pipeVars, prev>>

ShareNext ==
    \/ \E r \in Runs : share_setup_clean(r)
    \/ \E r \in Runs : share_setup_mkdir(r)
    \/ \E r \in Runs : share_stage(r)
    \/ \E r \in Runs : share_cleanup(r)

ShareSpec == ShareInit /\ [][ShareNext]_vars

---------------------------------------------------------------------------
(* Two runs of main one after the other on the same repository and revision.
   The first run went through its four stages with the reference settings;
   what its tools printed and left behind is kept in prev, and the second
   run, with any settings, is given the same revision and sees the tools
   print and leave the same. *)

\* the reference settings of the first run
Reference == options.make_jobs = "" /\ options.distro = "" /\ location = "/b"

\* get_orig_tar, line 170: the command whose output is captured
GitLogArgv == <<"git", "log", "--oneline", "-1">>

\* what `git log --oneline -1` printed in this run
GitLogOut == cmds[CHOOSE i \in DOMAIN cmds : cmds[i].argv = GitLogArgv].out

\* the first run is over and kept; a second Builder starts
next_run ==
    /\ ~prev.valid
    /\ pc = "exited" /\ Logged("get_files") /\ Reference
    /\ prev' = [valid |-> TRUE, commit |-> commit,
                distFound |-> globs[1].found, gitLine |-> GitLogOut,
                hasDeb |-> Len(globs) >= 2,
                debFound |-> (IF Len(globs) >= 2 THEN globs[2].found ELSE {}),
                version |-> version, git |-> git, origname |-> origname,
                debsrc |-> debsrc, prefix |-> Prefix(version, git),
                srcFiles |-> SrcFiles(version, git), outFiles |-> outFiles]
    /\ pc' = "get_options"
    /\ options' = [get_src |-> FALSE, make_jobs |-> "", distro |-> ""]
    /\ commit' = "" /\ location' = "" /\ nullOpen' = FALSE
    /\ dirExists' \in BOOLEAN
    /\ wdFiles' = {} /\ tmpFiles' = {} /\ changelog' = "absent" /\ outFiles' = {}
    /\ version' = "" /\ git' = "" /\ origname' = "" /\ debsrc' = "" /\ distro' = ""
    /\ delay_error' = FALSE /\ err' = "none" /\ exitStatus' = -1
    /\ trace' = <<>> /\ cmds' = <<>> /\ globs' = <<>>
    /\ UNCHANGED <<pipeVars, shareVars>>

\* the second run is given the revision of the first, and its tools print
\* and leave behind what they did in the first run (they may still fail)
SameRepo ==
    prev.valid =>
        /\ (pc # "get_options" /\ exitStatus # 2 => commit = prev.commit)
        /\ (Len(globs) >= 1 => globs[1].found = prev.distFound)
        /\ (Len(globs) >= 2 /\ prev.hasDeb => globs[2].found = prev.debFound)
        /\ \A i \in DOMAIN cmds :
              cmds[i].argv = GitLogArgv /\ cmds[i].ret = 0 => cmds[i].out = prev.gitLine

PairNext ==
    \/ next_run
    \/ (Next /\ SameRepo')

PairSpec == Init /\ [][PairNext]_vars

---------------------------------------------------------------------------
(* Vocabulary of the properties *)

\* the process has exited
Exited == pc = "exited"

\* setup ran to its end: os.mkdir was reached and the setup handler was not
SetupOk == Logged("mkdir") /\ pc # "setup_except" /\ ~Logged("except_setup")

\* setup raised
SetupFailed == pc = "setup_except" \/ Logged("except_setup")

\* the four stages of the build phase, in the order main calls them
StageOrder == <<"get_orig_tar", "add_debian_dir", "build", "get_files">>
StageEvents == {StageOrder[i] : i \in DOMAIN StageOrder}
IsStage(e) == e \in StageEvents

\* the stages started so far, in the order they were started
StagesRun == SelectSeq(trace, IsStage)

\* the build phase raised; the cleanup phase raised
BuildRaised == Logged("except_build")
CleanupRaised == Logged("except_cleanup")

\* positions of the run inside the four stages
StagePcs ==
    {"get_orig_tar", "git_checkout", "submodule_init", "submodule_update",
     "autoreconf", "configure", "make_dist", "glob_dist", "git_log", "copy_orig",
     "rm_git_tmp", "add_debian_dir", "tar", "copytree", "read_changelog",
     "resolve_distro", "write_changelog", "build", "get_files"}

\* positions of the run from the cleanup phase on
AfterBuildPcs == {"cleanup_clean", "cleanup_except", "finish", "exited"}

\* the glob calls for the dist archive and for the binary package
DistGlobs == {i \in DOMAIN globs : EndsWith(globs[i].pattern, "dl-fldigi-*.tar.gz")}
DebGlobs == {i \in DOMAIN globs : EndsWith(globs[i].pattern, "_*.deb")}

\* the dist-archive glob found no archive, or more than one
DistMismatch == \E i \in DistGlobs : Cardinality(globs[i].found) # 1

\* debuild was spawned
DebuildSpawned == \E i \in DOMAIN cmds : cmds[i].argv[1] = "debuild"

---------------------------------------------------------------------------
(* C1: in every run whose setup succeeded the cleanup phase (the try block
   of lines 48-52) is entered exactly once, after the build phase has ended
   (right after get_files returned or right after the build handler ran),
   whether or not a stage raised; no stage runs after it, and inside it
   clean_build_dir is called once (with the call made by setup, twice in the
   run), or not at all when closing the handle raised first. *)
C1_CleanupExactlyOnce ==
    /\ Count("cleanup") <= 1
    /\ (Exited /\ SetupOk => Count("cleanup") = 1)
    /\ (Logged("cleanup") => pc \in AfterBuildPcs)
    /\ \A i \in DOMAIN trace : trace[i] = "cleanup" =>
          /\ SetupOk
          /\ i > 1 /\ trace[i - 1] \in {"get_files", "except_build"}
          /\ \A j \in DOMAIN trace : j > i =>
                trace[j] \notin StageEvents \cup {"except_build", "cleanup"}
          /\ Cardinality({j \in DOMAIN trace : j > i /\ trace[j] = "clean_build_dir"}) <= 1
          /\ (i < Len(trace) => trace[i + 1] \in {"clean_build_dir", "except_cleanup"})
          /\ (pc \in {"finish", "exited"} /\ trace[i + 1] # "except_cleanup" =>
                 Count("clean_build_dir") = 2)

\* a run that failed in its build phase, entered cleanup once and exited
C1_Witness ==
    Exited /\ SetupOk /\ BuildRaised /\ Count("cleanup") = 1 /\ ~Logged("get_files")

(* C2: for a run that got past setup, the exit status is failure if the
   build phase or the cleanup phase raised and 0 only if neither raised. *)
C2_ExitStatus ==
    Exited /\ SetupOk =>
        /\ (BuildRaised \/ CleanupRaised => exitStatus # 0)
        /\ (~BuildRaised /\ ~CleanupRaised => exitStatus = 0)

(* C3, as stated: after any run in which setup succeeded the working
   directory does not exist once the process has exited, whatever the
   outcome of the cleanup steps. *)
C3_DirGoneAlways == Exited /\ SetupOk => ~dirExists

(* C3, amended: after any run in which setup succeeded and no cleanup step
   raised, the working directory does not exist once the process has exited,
   whether the build phase succeeded or failed; the directory is left behind
   only when a cleanup step raised. *)
C3_DirGoneUnlessCleanupRaised ==
    Exited /\ SetupOk =>
        /\ (~CleanupRaised => ~dirExists /\ wdFiles = {} /\ tmpFiles = {})
        /\ (dirExists => CleanupRaised)

\* a run whose build phase failed, whose cleanup raised nothing, and which
\* left no directory
C3_Witness ==
    Exited /\ SetupOk /\ BuildRaised /\ ~CleanupRaised /\ Logged("rmtree") /\ ~dirExists

(* C4: when setup fails (open, the path check, the removal of an old
   directory or mkdir raises) the run goes straight to the exit with status
   1: no stage is started, no command is spawned and the cleanup phase is
   never entered. *)
C4_SetupFailureFatal ==
    SetupFailed =>
        /\ pc \in {"setup_except", "exited"}
        /\ \A i \in DOMAIN trace :
              trace[i] \notin StageEvents \cup {"cleanup", "except_build"}
        /\ cmds = <<>>
        /\ ~delay_error
        /\ (Exited => exitStatus = 1)

\* a run whose mkdir failed after the old directory was removed
C4_Witness == Exited /\ Logged("except_setup") /\ Logged("rmtree") /\ Logged("mkdir")

\* every character of p is a letter, a digit, "_", "-" or "/"
OnlyAllowedChars(p) == \A i \in 1..Len(p) : CharAt(p, i) \in ClassChars

(* C5: a path of allowed characters only never fails the character check; a
   path with a disallowed character always fails it, before anything is
   removed or created. *)
C5_CharsetGate ==
    Logged("setup_build_dir") =>
        /\ (OnlyAllowedChars(location) =>
               ~(pc = "setup_except" /\ trace[Len(trace)] = "setup_build_dir"))
        /\ (~OnlyAllowedChars(location) =>
               /\ pc \in {"setup_except", "exited"}
               /\ ~Logged("clean_build_dir") /\ ~Logged("rmtree") /\ ~Logged("mkdir"))

\* the three source-package names of the run
SrcSet == {SrcFiles(version, git)[i] : i \in 1..3}

(* C6: in source-only mode, once get_files has run after a successful build
   with the three source-package files in the working directory, exactly
   those three files are in the output directory, no error was deferred, no
   .deb glob was made and the run exits with status 0. *)
C6_SourceModeCopiesThree ==
    options.get_src /\ Logged("get_files") /\ dirExists /\ SrcSet \subseteq wdFiles =>
        /\ outFiles = SrcSet
        /\ pc # "build_except" /\ ~delay_error
        /\ DebGlobs = {}
        /\ (Exited => exitStatus = 0)

(* C7, as stated (the error's class aside): when the dist-archive glob
   yields 0 or 2 or more matches, no later stage runs, the exit status is
   failure and the working directory is removed. *)
C7_MismatchDirRemoved ==
    DistMismatch =>
        /\ StagesRun = <<"get_orig_tar">>
        /\ (Exited => exitStatus = 1 /\ ~dirExists)

(* C7, amended: when the dist-archive glob yields 0 or 2 or more matches,
   get_orig_tar raises AssertionError, no version is derived, no later stage
   runs, the exit status is 1, and the working directory is removed unless a
   cleanup step raised. *)
C7_MismatchFails ==
    DistMismatch =>
        /\ pc \in {"build_except", "cleanup"} \cup AfterBuildPcs
        /\ (pc \in {"build_except", "cleanup"} => err = "AssertionError")
        /\ version = "" /\ origname = ""
        /\ StagesRun = <<"get_orig_tar">>
        /\ (Exited => exitStatus = 1 /\ (~CleanupRaised => ~dirExists))

\* a run that found two archives, failed, and removed its directory
C7_Witness ==
    /\ Exited /\ exitStatus = 1 /\ ~CleanupRaised /\ ~dirExists
    /\ \E i \in DistGlobs : Cardinality(globs[i].found) >= 2

\* the revision summary's first word was taken and is not 7 characters long
BadToken == git # "" /\ Len(git) # 7

(* C8: when the first word of the revision summary is not 7 characters long
   the run fails before metadata injection: add_debian_dir is never started,
   the versioned directory is never created, the changelog is never written,
   debuild is never spawned, and the exit status is 1. *)
C8_BadHashStopsBeforeInjection ==
    BadToken =>
        /\ pc \in {"build_except", "cleanup"} \cup AfterBuildPcs
        /\ StagesRun = <<"get_orig_tar">>
        /\ debsrc = "" /\ DebSrc(version, git) \notin wdFiles
        /\ changelog = "absent"
        /\ ~DebuildSpawned
        /\ (Exited => exitStatus = 1)

\* a run that read an 8-character hash and exited
C8_Witness == Exited /\ Len(git) = 8 /\ exitStatus = 1

(* C9: in binary mode a file reaches the output directory only when the
   .deb glob found exactly one name, and it is that name; when the glob
   found none or several, nothing is copied and the run ends in failure. *)
C9_BinaryCopiesTheOneMatch ==
    ~options.get_src =>
        /\ Cardinality(DebGlobs) <= 1
        /\ (outFiles # {} =>
               \E i \in DebGlobs :
                   Cardinality(globs[i].found) = 1 /\ outFiles = globs[i].found)
        /\ \A i \in DebGlobs : Cardinality(globs[i].found) # 1 =>
               /\ outFiles = {}
               /\ pc = "build_except" \/ delay_error
               /\ (Exited => exitStatus = 1)

\* a binary run that copied its one package and exited with success
C9_Witness ==
    /\ Exited /\ ~options.get_src /\ exitStatus = 0
    /\ Cardinality(outFiles) = 1
    /\ \E i \in DebGlobs : outFiles = globs[i].found

(* C10: the stages start in the order get_orig_tar, add_debian_dir, build,
   get_files, each at most once and only after setup and after every
   earlier stage returned without raising; when a stage raises, the error
   is recorded in delay_error, no further stage starts, and the cleanup
   phase is what runs next. *)
C10_StageOrder ==
    /\ Len(StagesRun) <= Len(StageOrder)
    /\ StagesRun = SubSeq(StageOrder, 1, Len(StagesRun))
    /\ (StagesRun # <<>> => SetupOk)
    /\ (pc \in StagePcs => err = "none" /\ ~delay_error)
    /\ (pc = "build_except" => err # "none")
    /\ Count("except_build") <= 1
    /\ (delay_error <=> BuildRaised)
    /\ \A i \in DOMAIN trace : trace[i] = "except_build" =>
          /\ \A j \in DOMAIN trace : j > i => trace[j] \notin StageEvents
          /\ IF i = Len(trace) THEN pc = "cleanup" ELSE trace[i + 1] = "cleanup"

\* a run whose build stage raised: three stages started, the fourth never
C10_Witness ==
    /\ Exited /\ BuildRaised
    /\ StagesRun = <<"get_orig_tar", "add_debian_dir", "build">>

---------------------------------------------------------------------------
(* Vocabulary of the properties about spawned commands *)

\* the places in the history where a command with these leading words is
Spawns(words) ==
    {i \in DOMAIN cmds : Len(cmds[i].argv) >= Len(words)
                         /\ SubSeq(cmds[i].argv, 1, Len(words)) = words}

\* word w is one of the arguments of the command at place i
HasArg(i, w) == \E k \in DOMAIN cmds[i].argv : cmds[i].argv[k] = w

\* some spawned command exited with a nonzero status
SomeCmdFailed == \E i \in DOMAIN cmds : cmds[i].ret # 0

(* C13: no external command is spawned twice in a run, and a command that
   exited with a nonzero status is the last one the run spawns: the
   remaining stages are skipped and the cleanup phase spawns nothing. *)
C13_NoRetry ==
    /\ \A i, j \in DOMAIN cmds : i # j => cmds[i].argv # cmds[j].argv
    /\ \A i \in DOMAIN cmds : cmds[i].ret # 0 => i = Len(cmds)
    /\ (SomeCmdFailed => pc \in {"build_except", "cleanup"} \cup AfterBuildPcs)
    /\ (SomeCmdFailed /\ Exited => exitStatus = 1)

\* a run whose configure step failed after five commands had succeeded
C13_Witness ==
    /\ Exited /\ Len(cmds) = 6 /\ cmds[6].ret # 0 /\ cmds[6].argv = <<"./configure">>
    /\ Logged("cleanup")

(* C14: debuild is spawned in the versioned source directory, always with
   -uc and -us, with -j<N> exactly when make_jobs N was given and with -S
   exactly when source-only mode was requested. *)
C14_DebuildArgs ==
    \A i \in Spawns(<<"debuild">>) :
        /\ cmds[i].cwd = Join(location, "dl-fldigi-" \o version \o "-" \o git)
        /\ cmds[i].argv[2] = "-uc" /\ cmds[i].argv[3] = "-us"
        /\ (options.make_jobs # "" <=> HasArg(i, "-j" \o options.make_jobs))
        /\ (options.make_jobs = "" =>
               \A k \in DOMAIN cmds[i].argv : ~StartsWith(cmds[i].argv[k], "-j"))
        /\ (options.get_src <=> HasArg(i, "-S"))
        /\ Len(cmds[i].argv) = 3 + (IF options.make_jobs # "" THEN 1 ELSE 0)
                                 + (IF options.get_src THEN 1 ELSE 0)

\* debuild spawned with a job count and in source-only mode
C14_Witness ==
    \E i \in Spawns(<<"debuild">>) :
        options.make_jobs = "4" /\ options.get_src /\ HasArg(i, "-j4") /\ HasArg(i, "-S")

\* tar extracted the archive
TarOk == \E i \in Spawns(<<"tar">>) : cmds[i].ret = 0

(* C15: the changelog is formatted at most once and overwritten at most
   once in a run, only after tar, copytree and the resolution of the
   distribution name succeeded; when debuild is spawned both have happened
   exactly once and the file holds the substituted text, never the
   template. *)
C15_ChangelogOnce ==
    /\ Count("substitute") <= 1 /\ Count("overwrite") <= 1
    /\ (Logged("overwrite") => Logged("substitute"))
    /\ (Logged("substitute") => TarOk /\ Logged("copytree") /\ distro # "")
    /\ (pc = "build" => changelog = "written")
    /\ (DebuildSpawned =>
           /\ Count("substitute") = 1 /\ Count("overwrite") = 1
           /\ changelog \in {"written", "absent"}
           /\ (changelog = "absent" => pc \in AfterBuildPcs))

\* debuild was spawned on a directory whose changelog was written
C15_Witness == DebuildSpawned /\ changelog = "written" /\ pc = "get_files"

(* C16: the resolved distribution name is the explicit option when one was
   given, and then lsb_release is never spawned; otherwise it is "unstable"
   when lsb_release -si printed "Debian", and then -sc is never spawned, and
   what lsb_release -sc printed in every other case. *)
C16_DistroResolution ==
    /\ (options.distro # "" => Spawns(<<"lsb_release">>) = {})
    /\ (Spawns(<<"lsb_release", "-sc">>) # {} =>
           \E i \in Spawns(<<"lsb_release", "-si">>) :
               cmds[i].ret = 0 /\ cmds[i].out # "Debian")
    /\ (distro # "" =>
           IF options.distro # "" THEN distro = options.distro
           ELSE \E i \in Spawns(<<"lsb_release", "-si">>) :
                  /\ cmds[i].ret = 0
                  /\ IF cmds[i].out = "Debian"
                     THEN distro = "unstable"
                     ELSE \E j \in Spawns(<<"lsb_release", "-sc">>) :
                            j > i /\ cmds[j].ret = 0 /\ distro = cmds[j].out)
    /\ (Logged("substitute") => distro # "")

\* a Debian host with no explicit name: "unstable", one query only
C16_Witness ==
    /\ distro = "unstable" /\ options.distro = ""
    /\ Cardinality(Spawns(<<"lsb_release">>)) = 1
    /\ Logged("substitute")

\* get_orig_tar returned; get_orig_tar raised
GetOrigTarReturned == pc = "add_debian_dir" \/ Logged("add_debian_dir")
GetOrigTarRaised ==
    StagesRun = <<"get_orig_tar">> /\ (pc = "build_except" \/ BuildRaised)

\* after get_orig_tar returned and before cleanup: the archive is at the
\* root under its canonical name and the clone is gone
ArchiveInPlace ==
    GetOrigTarReturned /\ pc \notin AfterBuildPcs =>
        /\ origname = "dl-fldigi_" \o version \o ".orig.tar.gz"
        /\ origname \in wdFiles
        /\ "git-tmp" \notin wdFiles /\ tmpFiles = {}

(* C17, as stated: when get_orig_tar returns the canonical archive is at the
   root of the working directory and git-tmp is gone; when it fails
   part-way, git-tmp is removed by the cleanup phase with the working
   directory. *)
C17_CloneAlwaysRemoved ==
    /\ ArchiveInPlace
    /\ (Exited /\ GetOrigTarRaised => ~dirExists /\ "git-tmp" \notin wdFiles)

(* C17, amended: when get_orig_tar returns the canonical archive is at the
   root of the working directory and git-tmp is gone; when it fails
   part-way git-tmp may remain, and it is removed by the cleanup phase with
   the working directory unless a cleanup step raised. *)
C17_CloneRemovedUnlessCleanupRaised ==
    /\ ArchiveInPlace
    /\ (Exited /\ GetOrigTarRaised /\ ~CleanupRaised =>
           ~dirExists /\ "git-tmp" \notin wdFiles /\ tmpFiles = {})

\* make dist failed with the clone in place, and the cleanup removed it
C17_Witness ==
    /\ Exited /\ GetOrigTarRaised /\ ~CleanupRaised /\ ~dirExists
    /\ \E i \in Spawns(<<"make", "dist">>) : cmds[i].ret # 0

(* C18: a file is in the output directory only after get_files was started,
   which is only after setup succeeded and every command of the run,
   debuild among them, exited with status zero; a run whose setup,
   acquisition, injection or build failed copies nothing. *)
C18_OutputOnlyByCollection ==
    /\ (outFiles # {} =>
           /\ Logged("get_files") /\ SetupOk
           /\ \E i \in Spawns(<<"debuild">>) : cmds[i].ret = 0
           /\ ~SomeCmdFailed
           /\ StagesRun = StageOrder)
    /\ (SetupFailed \/ ~Logged("get_files") => outFiles = {})

\* a run that copied a package
C18_Witness == Exited /\ outFiles # {} /\ Logged("get_files")

(* C11: a failure of the cleanup phase neither clears a deferred failure
   nor stops the run: a run whose build phase raised and whose cleanup also
   raised exits with status 1, a deferred error is never reset, and, every
   external command returning, every run of main reaches the process exit. *)
C11_CleanupFailureKeepsStatus ==
    /\ [](Exited /\ BuildRaised /\ CleanupRaised => exitStatus = 1)
    /\ [][delay_error => delay_error']_vars
    /\ <>Exited

\* a run whose build phase and cleanup phase both raised, exited with 1
C11_Witness == Exited /\ BuildRaised /\ CleanupRaised /\ exitStatus = 1

---------------------------------------------------------------------------
(* C19 *)

\* the command has been started and its whole output fits in the pipe
OutputFits == child # "none" /\ Len(childOut) <= PipeCap

\* the command has been started and prints more than the pipe holds
OutputExceeds == child # "none" /\ Len(childOut) > PipeCap

\* the command cannot write and the parent waits for it to exit
PipeBlocked ==
    /\ co_pc = "wait" /\ child = "running"
    /\ pending # "" /\ Len(pipeBuf) = PipeCap

\* C19: cmd_output reads the pipe only once the command has exited and the
\* parent has closed its descriptor of the write end.  When the command's
\* output fits in the pipe the call completes: it returns the whole output,
\* stripped, when the command exited with status 0 (and raises otherwise).
\* When the output exceeds the pipe the command blocks on its write while
\* the parent waits for it, and cmd_output never returns.
C19_ReadsAfterExit ==
    /\ [](co_pc \in {"read", "returned"} \/ data # "" => child = "exited" /\ ~wOpen)
    /\ [](co_pc = "returned" => OutputFits /\ childRet = 0 /\ co_line = Strip(childOut))
    /\ (OutputFits /\ childRet = 0 ~> co_pc = "returned")
    /\ (OutputFits /\ childRet # 0 ~> co_pc = "raised")
    /\ [](OutputExceeds => co_pc = "wait" /\ child = "running")
    /\ (OutputExceeds ~> [] PipeBlocked)

C19_Witness == OutputExceeds /\ PipeBlocked

---------------------------------------------------------------------------
(* C20 *)

\* run r is in its build phase
InBuild(r) == rpc[r] \in {"get_orig_tar", "add_debian_dir", "build", "get_files"}

\* the other run
Other(r) == CHOOSE q \in Runs : q # r

\* the two runs were given the same working-directory path
SamePath == \A r \in Runs : rloc[r] = rloc[Other(r)]

\* the working directory of run r is removed in this step
LosesDir(r) == InBuild(r) /\ rloc[r] \in dirs /\ rloc[r] \notin dirs'

\* C20: nothing locks the working directory.  A run in its build phase
\* keeps its directory as long as the two runs use distinct paths; a
\* directory is removed under a run in its build phase only by the setup or
\* the cleanup of the other run, configured with the same path.
C20_OwnershipNeedsDistinctPaths ==
    /\ [](~SamePath => \A r \in Runs : InBuild(r) => rloc[r] \in dirs)
    /\ [][\A r \in Runs :
            LosesDir(r) => /\ SamePath
                           /\ rpc[Other(r)] \in {"setup_clean", "cleanup"}
                           /\ rpc'[Other(r)] # rpc[Other(r)]]_vars

C20_Witness ==
    \E r \in Runs :
        /\ SamePath /\ InBuild(r) /\ rloc[r] \notin dirs
        /\ rpc[Other(r)] \in {"setup_mkdir", "exited"}

---------------------------------------------------------------------------
(* C12 *)

\* C12: on a fixed repository and revision, with tools that behave the same,
\* the second run derives the version, the short hash and the artifact names
\* (orig archive, source directory, file prefix, source-package names, the
\* files copied out) that the first run derived, whatever its working
\* directory, job count, distribution name and mode.
C12_SameDerivation ==
    prev.valid =>
        /\ (version # "" => version = prev.version)
        /\ (git # "" => git = prev.git)
        /\ (origname # "" => origname = prev.origname)
        /\ (debsrc # "" => debsrc = prev.debsrc)
        /\ (version # "" /\ git # "" =>
                /\ Prefix(version, git) = prev.prefix
                /\ SrcFiles(version, git) = prev.srcFiles)
        /\ (outFiles # {} /\ prev.outFiles # {} => outFiles = prev.outFiles)

C12_Witness ==
    /\ prev.valid /\ pc = "exited" /\ exitStatus = 0
    /\ ~Reference /\ location = "/" /\ options.make_jobs = "4" /\ options.distro = "sid"
    /\ outFiles # {} /\ outFiles = prev.outFiles
    /\ version = prev.version /\ git = prev.git

====
